---- MODULE Spec2Model ----
(***************************************************************************)
(* Book redistribution between libraries                                   *)
(* (library/services/redistribution.py, library/models.py).                *)
(*                                                                         *)
(* The store holds the Library, Book and LibraryBook tables.  A manager    *)
(* (base, capacity-aware or priority-aware) plans unit moves of copies     *)
(* from libraries with spare copies to libraries without the book and,     *)
(* unless it is a dry run, applies them in one transaction.                *)
(***************************************************************************)
EXTENDS Integers, Sequences, FiniteSets, TLC

\* ------------------------------------------------------------- bounds
MaxQty == 4         \* initial copies of one book over all libraries (base builder)
MaxQtyCap == 3      \* the same, where capacities vary
MaxFree == 1        \* initial capacity of a library is at most its load + MaxFree
MaxRuns == 2        \* rebalance() calls in one behaviour

LibraryIds == 1..4   \* ids the Library table may hold
BookIds == 1..2      \* ids of the Book table
AuthorIds == {1, 2}
Years == {2000, 2020}
Mgrs == {1, 2}
NoRow == -1         \* no LibraryBook row for the (library, book) pair
Kinds == {"base", "capacity", "priority"}
Priorities == {"year_desc", "author_first"}

VARIABLES
    Library,        \* set of library ids in the Library table
    capacity,       \* Library.capacity, by library id
    Book,           \* book id -> [year, author_id]
    LibraryBook,    \* <<library_id, book_id>> -> quantity, or NoRow
    scan,           \* order in which the store yields grouped book ids
    mgr,            \* manager objects: kind, dry_run, priority, author_ids, _free_capacity
    pc,             \* per manager: "idle", or "apply" between planning and _apply_plan
    pending,        \* per manager: the run in progress (snapshot, moves, considered)
    log             \* completed rebalance() calls, in order of completion

vars == <<Library, capacity, Book, LibraryBook, scan, mgr, pc, pending, log>>

\* ------------------------------------------------------------ helpers
Min(S) == CHOOSE x \in S : \A y \in S : x <= y

RECURSIVE Ascending(_)
\* The elements of a set of small ints as CPython iterates them: increasing.
Ascending(S) == IF S = {} THEN <<>>
                ELSE LET x == Min(S) IN <<x>> \o Ascending(S \ {x})

RECURSIVE SumSeq(_)
SumSeq(s) == IF s = <<>> THEN 0 ELSE Head(s) + SumSeq(Tail(s))

RECURSIVE SumOver(_, _)
SumOver(S, f) == IF S = {} THEN 0
                 ELSE LET x == CHOOSE y \in S : TRUE IN f[x] + SumOver(S \ {x}, f)

Range(s) == {s[i] : i \in 1..Len(s)}

\* Order of Python tuples of two ints.
TupleLess(k1, k2) == k1[1] < k2[1] \/ (k1[1] = k2[1] /\ k1[2] < k2[2])

RECURSIVE InsertStable(_, _, _)
\* x inserted into the sorted sequence s after every element whose key is
\* not greater than its own (Python's sorted() is stable).
InsertStable(s, x, key) ==
    IF s = <<>> THEN <<x>>
    ELSE IF TupleLess(key[x], key[Head(s)]) THEN <<x>> \o s
    ELSE <<Head(s)>> \o InsertStable(Tail(s), x, key)

RECURSIVE SortedStable(_, _)
\* sorted(s, key=...), key a function from the elements to tuples
SortedStable(s, key) ==
    IF s = <<>> THEN <<>>
    ELSE InsertStable(SortedStable(SubSeq(s, 1, Len(s) - 1), key), s[Len(s)], key)

\* ------------------------------------------------------- derived data
HasRow(db, l, b) == db[<<l, b>>] # NoRow
Quantity(db, l, b) == IF HasRow(db, l, b) THEN db[<<l, b>>] ELSE 0

\* coverage(book): libraries holding at least one copy
Coverage(db, b) == Cardinality({l \in LibraryIds : Quantity(db, l, b) > 0})
\* total(book): copies over all libraries
Total(db, b) == SumOver(LibraryIds, [l \in LibraryIds |-> Quantity(db, l, b)])
\* Library.used_capacity
used_capacity(db, l) == SumOver(BookIds, [b \in BookIds |-> Quantity(db, l, b)])

\* ------------------------------------------------- candidate selector
\* GROUP BY book_id over the LibraryBook rows, HAVING covered < nlibs and
\* total > 0; the ids come in the store's order (no ORDER BY).
\* A selector that counts every row of the book as a covering library.
GroupRows(db, b) ==
    Cardinality({l \in LibraryIds : HasRow(db, l, b)})

\* covered=Count("library", filter=Q(quantity__gt=0)) of the group of b
GroupCovered(db, b) ==
    Cardinality({l \in LibraryIds : HasRow(db, l, b) /\ db[<<l, b>>] > 0})

\* total=Sum("quantity") of the group of b
GroupTotal(db, b) ==
    SumOver({l \in LibraryIds : HasRow(db, l, b)},
            [l \in LibraryIds |-> db[<<l, b>>]])

IsCandidate(db, nlibs, b) ==
    /\ \E l \in LibraryIds : HasRow(db, l, b)
    /\ GroupCovered(db, b) < nlibs
    /\ GroupTotal(db, b) > 0

CandidateIn(db, nlibs, order) ==
    SelectSeq(order, LAMBDA b : IsCandidate(db, nlibs, b))

_candidate_book_ids(db, nlibs) == CandidateIn(db, nlibs, scan)

\* ----------------------------------------------------- plan building
\* A move that carries two copies.
MoveTwo(b, from, to) ==
    [book_id |-> b, from_library_id |-> from, to_library_id |-> to, quantity |-> 2]

\* Move(book_id, from_library_id, to_library_id, quantity=1)
Move(b, from, to) ==
    [book_id |-> b, from_library_id |-> from, to_library_id |-> to, quantity |-> 1]

\* The rows of one book, as the store lists them (by library id).
Holdings(db, b) ==
    LET ls == Ascending({l \in LibraryIds : HasRow(db, l, b)})
    IN [i \in 1..Len(ls) |-> [library_id |-> ls[i], quantity |-> db[<<ls[i], b>>]]]

\* A builder that takes every library with a row of the book as having it.
HasSetRows(holdings) ==
    {holdings[i].library_id : i \in 1..Len(holdings)}

\* {h["library_id"] for h in holdings if h["quantity"] > 0}
HasSet(holdings) ==
    {holdings[i].library_id : i \in {j \in 1..Len(holdings) : holdings[j].quantity > 0}}

\* key=lambda x: -x["quantity"]
DonorKey(h) == <<0 - h.quantity, 0>>

\* Rows with more than one copy, largest first.
Donors(holdings) ==
    SortedStable(SelectSeq(holdings, LAMBDA h : h.quantity > 1),
                 [h \in Range(holdings) |-> DonorKey(h)])

\* A builder that offers the book to every library.
RecipientsAll(all_lib_ids, has_set) == Ascending(all_lib_ids)

\* [lid for lid in (all_lib_ids - has_set)]
Recipients(all_lib_ids, has_set) == Ascending(all_lib_ids \ has_set)

\* A builder that lets a donor give its last copy too.
CanMoveAll(donor) == donor.quantity

\* What a donor may give: all but one copy.
CanMove(donor) == donor.quantity - 1

\* A builder that leaves the loop after its first donor.
StopAfterDonor(covered, target) == TRUE

\* if covered >= target_coverage: break
StopAtTarget(covered, target) == covered >= target

RECURSIVE BaseWhile(_, _, _, _, _, _)
\* The while loop of the base builder for one donor.
BaseWhile(b, donor, can_move, st, target, recipients) ==
    IF can_move > 0 /\ st.covered < target /\ st.ri < Len(recipients)
    THEN BaseWhile(b, donor, can_move - 1,
                   [ri |-> st.ri + 1,
                    covered |-> st.covered + 1,
                    moves |-> Append(st.moves,
                                     Move(b, donor.library_id, recipients[st.ri + 1]))],
                   target, recipients)
    ELSE st

RECURSIVE BaseFor(_, _, _, _, _)
\* The for loop over the donors of the base builder.
BaseFor(b, donors, st, target, recipients) ==
    IF donors = <<>> THEN st
    ELSE LET st2 == BaseWhile(b, Head(donors), CanMove(Head(donors)), st,
                              target, recipients)
         IN IF StopAtTarget(st2.covered, target) THEN st2
            ELSE BaseFor(b, Tail(donors), st2, target, recipients)

\* RedistributionManager._build_plan_for_book
BuildPlanBase(db, libs, b, nlibs) ==
    LET holdings == Holdings(db, b)
        total == SumSeq([i \in 1..Len(holdings) |-> holdings[i].quantity])
        target_coverage == IF nlibs < total THEN nlibs ELSE total
        has_set == HasSet(holdings)
        covered == Cardinality(has_set)
        recipients == Recipients(libs, has_set)
    IN IF total = 0 THEN <<>>
       ELSE IF covered >= target_coverage THEN <<>>
       ELSE BaseFor(b, Donors(holdings),
                    [ri |-> 0, covered |-> covered, moves |-> <<>>],
                    target_coverage, recipients).moves

\* CapacityAwareRedistributionManager._compute_free_capacity
_compute_free_capacity(db, libs) ==
    [l \in libs |-> capacity[l] - used_capacity(db, l)]

\* self._free_capacity.get(lid, 0)
FreeGet(free, l) == IF l \in DOMAIN free THEN free[l] ELSE 0

\* A library with room for one more copy.
HasRoom(free, l) == FreeGet(free, l) > 0

\* A builder that forgets the slot a move takes.
TakeNoSlot(free, to_lib) == free

\* The free-capacity map after one move into to_lib.
TakeSlot(free, to_lib) == [free EXCEPT ![to_lib] = @ - 1]

RECURSIVE CapWhile(_, _, _, _, _, _)
\* The while loop of the capacity-aware builder for one donor.
CapWhile(b, donor, can_move, st, target, recipients) ==
    IF can_move > 0 /\ st.covered < target /\ st.ri < Len(recipients)
    THEN LET to_lib == recipients[st.ri + 1]
         IN IF st.free[to_lib] <= 0
            THEN CapWhile(b, donor, can_move, [st EXCEPT !.ri = @ + 1],
                          target, recipients)
            ELSE CapWhile(b, donor, can_move - 1,
                          [ri |-> st.ri + 1,
                           covered |-> st.covered + 1,
                           moves |-> Append(st.moves, Move(b, donor.library_id, to_lib)),
                           free |-> TakeSlot(st.free, to_lib)],
                          target, recipients)
    ELSE st

RECURSIVE CapFor(_, _, _, _, _)
\* The for loop over the donors of the capacity-aware builder.
CapFor(b, donors, st, target, recipients) ==
    IF donors = <<>> THEN st
    ELSE LET st2 == CapWhile(b, Head(donors), CanMove(Head(donors)), st,
                             target, recipients)
         IN IF StopAtTarget(st2.covered, target) THEN st2
            ELSE CapFor(b, Tail(donors), st2, target, recipients)

\* Whether the builder has to compute the free-capacity map: an empty dict.
NeedsFreeCapacity(free) == DOMAIN free = {}

\* CapacityAwareRedistributionManager._build_plan_for_book: the moves and
\* the free-capacity map it leaves on the manager.
BuildPlanCapacity(db, libs, free0, b, nlibs) ==
    LET free == IF NeedsFreeCapacity(free0) THEN _compute_free_capacity(db, libs)
                ELSE free0
        holdings == Holdings(db, b)
        total == SumSeq([i \in 1..Len(holdings) |-> holdings[i].quantity])
        target_coverage == IF nlibs < total THEN nlibs ELSE total
        has_set == HasSet(holdings)
        covered == Cardinality(has_set)
        recipients_all == Recipients(DOMAIN free, has_set)
        recipients == SelectSeq(recipients_all, LAMBDA l : HasRoom(free, l))
        none == [moves |-> <<>>, free |-> free]
    IN IF total = 0 THEN none
       ELSE IF covered >= target_coverage THEN none
       ELSE LET st == CapFor(b, Donors(holdings),
                             [ri |-> 0, covered |-> covered, moves |-> <<>>,
                              free |-> free],
                             target_coverage, recipients)
            IN [moves |-> st.moves, free |-> st.free]

\* A builder that, finding nothing to move, hands a copy of the book from
\* its first holder to the first library that lacks it.
BuildPlanSpreading(kind, db, libs, free, b, nlibs) ==
    LET r == IF kind = "base"
             THEN [moves |-> BuildPlanBase(db, libs, b, nlibs), free |-> free]
             ELSE BuildPlanCapacity(db, libs, free, b, nlibs)
        has == {l \in libs : Quantity(db, l, b) > 0}
        lacks == libs \ has
    IN IF r.moves = <<>> /\ has # {} /\ lacks # {}
       THEN [moves |-> <<Move(b, Min(has), Min(lacks))>>, free |-> r.free]
       ELSE r

\* _build_plan_for_book of the manager's class
BuildPlanForBook(kind, db, libs, free, b, nlibs) ==
    IF kind = "base"
    THEN [moves |-> BuildPlanBase(db, libs, b, nlibs), free |-> free]
    ELSE BuildPlanCapacity(db, libs, free, b, nlibs)

\* ---------------------------------------------------- priority order
\* A sort key that puts no author first.
sort_key_by_year(m, bid) == <<1, 0 - Book[bid].year>>

\* A sort key whose last bucket is ordered newer first.
sort_key_rest_by_year(m, bid) ==
    LET meta == Book[bid]
    IN IF m.priority = "author_first" /\ meta.author_id \in m.author_ids
       THEN <<0, 0 - meta.year>>
       ELSE IF m.priority = "year_desc" THEN <<1, 0 - meta.year>>
       ELSE <<2, 0 - meta.year>>

\* A sort key that puts the configured authors first under either priority.
sort_key_authors_always(m, bid) ==
    LET meta == Book[bid]
    IN IF meta.author_id \in m.author_ids
       THEN <<0, 0 - meta.year>>
       ELSE IF m.priority = "year_desc" THEN <<1, 0 - meta.year>>
       ELSE <<2, bid>>

\* PriorityRedistributionManager.rebalance.sort_key
sort_key(m, bid) ==
    LET meta == Book[bid]
    IN IF m.priority = "author_first" /\ meta.author_id \in m.author_ids
       THEN <<0, 0 - meta.year>>
       ELSE IF m.priority = "year_desc" THEN <<1, 0 - meta.year>>
       ELSE <<2, bid>>

\* sorted(base_ids, key=sort_key)
Ordered(m, base_ids) ==
    SortedStable(base_ids, [bid \in Range(base_ids) |-> sort_key(m, bid)])

\* The order in which rebalance() plans the candidate ids.
PlanOrder(m, base_ids) ==
    IF m.kind = "priority" THEN Ordered(m, base_ids) ELSE base_ids

RECURSIVE PlanBooks(_, _, _, _, _, _)
\* for book_id in ...: moves.extend(self._build_plan_for_book(book_id, nlibs))
PlanBooks(kind, db, libs, nlibs, ids, acc) ==
    IF ids = <<>> THEN acc
    ELSE LET r == BuildPlanForBook(kind, db, libs, acc.free, Head(ids), nlibs)
         IN PlanBooks(kind, db, libs, nlibs, Tail(ids),
                      [moves |-> acc.moves \o r.moves, free |-> r.free])

\* The planning part of rebalance() for manager m when the selector
\* yields the candidates in the given store order.
PlanWith(m, db, libs, order) ==
    LET nlibs == Cardinality(libs)
        base_ids == CandidateIn(db, nlibs, order)
        r == PlanBooks(m.kind, db, libs, nlibs, PlanOrder(m, base_ids),
                       [moves |-> <<>>, free |-> m._free_capacity])
    IN [moves |-> r.moves, considered |-> Len(base_ids), free |-> r.free,
        nlibs |-> nlibs, ordered |-> PlanOrder(m, base_ids)]

\* ------------------------------------------------------------- apply
RECURSIVE FirstOccurrences(_)
\* The keys of a dict filled from the sequence ks: each once, in the order
\* of its first occurrence.
FirstOccurrences(ks) ==
    IF ks = <<>> THEN <<>>
    ELSE LET rest == FirstOccurrences(SubSeq(ks, 1, Len(ks) - 1))
             k == ks[Len(ks)]
         IN IF k \in Range(rest) THEN rest ELSE Append(rest, k)

IncKey(m) == <<m.to_library_id, m.book_id>>
DecKey(m) == <<m.from_library_id, m.book_id>>
IncKeys(moves) == FirstOccurrences([i \in 1..Len(moves) |-> IncKey(moves[i])])
DecKeys(moves) == FirstOccurrences([i \in 1..Len(moves) |-> DecKey(moves[i])])

\* inc[(to_library_id, book_id)] and dec[(from_library_id, book_id)]
IncQty(moves, k) ==
    SumSeq([i \in 1..Len(moves) |-> IF IncKey(moves[i]) = k THEN moves[i].quantity ELSE 0])
DecQty(moves, k) ==
    SumSeq([i \in 1..Len(moves) |-> IF DecKey(moves[i]) = k THEN moves[i].quantity ELSE 0])

\* The rows select_for_update() returns: library among the touched
\* libraries and book among the touched books.
LockedRows(db, moves) ==
    LET touched == Range(IncKeys(moves)) \cup Range(DecKeys(moves))
    IN {k \in DOMAIN db : /\ db[k] # NoRow
                          /\ k[1] \in {t[1] : t \in touched}
                          /\ k[2] \in {t[2] : t \in touched}}

RECURSIVE ApplyInc(_, _, _, _)
\* for (lib_id, book_id), qty in inc.items(): add to the row read under the
\* lock, or create the row (bulk_create with ignore_conflicts).
ApplyInc(db, by_key, moves, keys) ==
    IF keys = <<>> THEN db
    ELSE LET k == Head(keys)
             qty == IncQty(moves, k)
             db2 == IF k \in by_key THEN [db EXCEPT ![k] = @ + qty]
                    ELSE IF db[k] = NoRow THEN [db EXCEPT ![k] = qty]
                    ELSE db
         IN ApplyInc(db2, by_key, moves, Tail(keys))

\* quantity_non_negative (and PositiveIntegerField)
QuantityAllowed(q) == q >= 0

\* An update whose filter names the book only.
MatchingBook(db, k) ==
    {r \in DOMAIN db : db[r] # NoRow /\ r[2] = k[2]}

\* The rows of filter(library_id=lib_id, book_id=book_id)
Matching(db, k) ==
    {r \in DOMAIN db : db[r] # NoRow /\ r[1] = k[1] /\ r[2] = k[2]}

\* An update that takes one copy whatever the aggregated quantity.
SubtractedOnce(q, qty) == q - 1

\* quantity=F("quantity") - qty
Subtracted(q, qty) == q - qty

RECURSIVE ApplyDec(_, _, _)
\* for (lib_id, book_id), qty in dec.items(): UPDATE the matching rows SET
\* quantity = quantity - qty; a row the constraint rejects raises and ends
\* the loop.
ApplyDec(db, moves, keys) ==
    IF keys = <<>> THEN [ok |-> TRUE, db |-> db]
    ELSE LET rows == Matching(db, Head(keys))
             qty == DecQty(moves, Head(keys))
             db2 == [r \in DOMAIN db |->
                        IF r \in rows THEN Subtracted(db[r], qty) ELSE db[r]]
         IN IF \E r \in rows : ~QuantityAllowed(db2[r])
            THEN [ok |-> FALSE, db |-> db]
            ELSE ApplyDec(db2, moves, Tail(keys))

\* The writes of _apply_plan on the store db, by_key being the rows it read
\* under the lock.
ApplyWrites(db, by_key, moves) ==
    ApplyDec(ApplyInc(db, by_key, moves, IncKeys(moves)), moves, DecKeys(moves))

\* The body of RedistributionManager._apply_plan
ApplyBody(db, moves) == ApplyWrites(db, LockedRows(db, moves), moves)

\* An apply that keeps what it wrote before the error.
NotAtomic(db, r) == r.db

\* @transaction.atomic: what the store holds when the body has ended.
Atomic(db, r) == IF r.ok THEN r.db ELSE db

\* RedistributionManager._apply_plan
_apply_plan(db, moves) ==
    LET r == ApplyBody(db, moves) IN [ok |-> r.ok, db |-> Atomic(db, r)]

\* ----------------------------------------------------------- rebalance
\* What a run has after planning.
PlannedBy(mg, m) ==
    LET p == PlanWith(mg, LibraryBook, Library, scan)
    IN [mgr |-> m, dry_run |-> mg.dry_run, snap |-> LibraryBook,
        free0 |-> mg._free_capacity, free |-> p.free, nlibs |-> p.nlibs,
        moves |-> p.moves, considered |-> p.considered, ordered |-> p.ordered,
        locked |-> FALSE, by_key |-> {}, created |-> 0, inserted |-> {}]

\* What a run of the manager in slot m has after planning.
Planned(m) == PlannedBy(mgr[m], m)

\* A rebalance() that applies whatever dry_run says.
SkipsNever(run) == FALSE

\* if not self.dry_run: self._apply_plan(moves)
SkipsApply(run) == run.dry_run

\* The end of rebalance() for a planned run, on the store db: the record
\* of the call and the store after it.
Finish(run, db) ==
    LET r == IF SkipsApply(run) THEN [ok |-> TRUE, db |-> db]
             ELSE IF run.locked
                  THEN LET w == ApplyWrites(db, run.by_key, run.moves)
                       IN [ok |-> w.ok, db |-> Atomic(db, w)]
                  ELSE _apply_plan(db, run.moves)
    IN [mgr |-> run.mgr, dry_run |-> run.dry_run, snap |-> run.snap,
        free0 |-> run.free0, nlibs |-> run.nlibs, moves |-> run.moves,
        considered |-> run.considered, ordered |-> run.ordered,
        by_key |-> IF run.locked THEN run.by_key ELSE LockedRows(db, run.moves),
        pre |-> db, post |-> r.db,
        outcome |-> IF ~r.ok THEN "failed"
                    ELSE IF run.dry_run THEN "dry" ELSE "applied"]

NoRun == [mgr |-> 0]

RunsStarted == Len(log) + Cardinality({m \in Mgrs : pc[m] # "idle"})

\* The managers being alike, the first call of a behaviour is manager 1's.
FirstCaller(m) == m = 1 \/ RunsStarted > 0

\* rebalance() run from start to end with no other writer in between.
Rebalance(m) ==
    /\ pc[m] = "idle"
    /\ RunsStarted < MaxRuns
    /\ FirstCaller(m)
    /\ \E run \in {Planned(m)} :
         \E e \in {Finish(run, LibraryBook)} :
            /\ mgr' = [mgr EXCEPT ![m]._free_capacity = run.free]
            /\ LibraryBook' = e.post
            /\ log' = Append(log, e)
    /\ UNCHANGED <<Library, capacity, Book, scan, pc, pending>>

\* The planning reads of rebalance() of a manager that will apply; they
\* take no lock, so other transactions may commit before its apply.
Plan(m) ==
    /\ pc[m] = "idle"
    /\ ~mgr[m].dry_run
    /\ RunsStarted < MaxRuns
    /\ LET run == Planned(m)
       IN /\ mgr' = [mgr EXCEPT ![m]._free_capacity = run.free]
          /\ pending' = [pending EXCEPT ![m] = run]
    /\ pc' = [pc EXCEPT ![m] = "apply"]
    /\ UNCHANGED <<Library, capacity, Book, LibraryBook, scan, log>>

\* The apply transaction of a planned run, and the return of rebalance().
Apply(m) ==
    /\ pc[m] = "apply"
    /\ LET e == Finish(pending[m], LibraryBook)
       IN /\ LibraryBook' = e.post
          /\ log' = Append(log, e)
    /\ pc' = [pc EXCEPT ![m] = "idle"]
    /\ pending' = [pending EXCEPT ![m] = NoRun]
    /\ UNCHANGED <<Library, capacity, Book, scan, mgr>>

\* The rows that apply transactions hold locked.
RowsLocked(by) ==
    UNION {pending[m].by_key \cup pending[m].inserted :
               m \in {x \in by : pc[x] = "locked"}}

\* The start of the apply transaction of a planned run: the read with
\* select_for_update(), which waits for the rows another transaction
\* holds, locks the rows it returns and fills by_key.
LockRows(m) ==
    /\ pc[m] = "apply"
    /\ LockedRows(LibraryBook, pending[m].moves) \cap RowsLocked(Mgrs \ {m}) = {}
    /\ pending' = [pending EXCEPT ![m].locked = TRUE,
                                  ![m].by_key =
                                      LockedRows(LibraryBook, pending[m].moves)]
    /\ pc' = [pc EXCEPT ![m] = "locked"]
    /\ UNCHANGED <<Library, capacity, Book, LibraryBook, scan, mgr, log>>

\* The writes and the commit of an apply transaction that has read its
\* rows, and the return of rebalance().
Write(m) ==
    /\ pc[m] = "locked"
    /\ \E e \in {Finish(pending[m], LibraryBook)} :
          /\ LibraryBook' = e.post
          /\ log' = Append(log, e)
    /\ pc' = [pc EXCEPT ![m] = "idle"]
    /\ pending' = [pending EXCEPT ![m] = NoRun]
    /\ UNCHANGED <<Library, capacity, Book, scan, mgr>>

\* to_create, in the order of inc: the keys of inc that the locking read
\* did not return.
ToCreate(run) ==
    SelectSeq(IncKeys(run.moves), LAMBDA k : k \notin run.by_key)

\* The key that the bulk_create of the apply of m inserts next.
NextInsert(m) == ToCreate(pending[m])[pending[m].created + 1]

\* The apply of m has still a row to insert.
Inserting(m) ==
    /\ pc[m] = "locked"
    /\ ~SkipsApply(pending[m])
    /\ pending[m].created < Len(ToCreate(pending[m]))

\* The apply of m waits for the apply of n: the key it inserts next is
\* one that n has inserted and not yet committed.
Waits(m, n) ==
    /\ m # n
    /\ Inserting(m)
    /\ pc[n] = "locked"
    /\ NextInsert(m) \in pending[n].inserted

\* bulk_create(to_create, ignore_conflicts=True), one row of it: the insert
\* waits for an uncommitted insert of the same key by another transaction,
\* is dropped when a committed row has the key, and otherwise leaves the
\* new row locked by this transaction until it ends.
CreateRow(m) ==
    /\ Inserting(m)
    /\ \A n \in Mgrs : ~Waits(m, n)
    /\ pending' = [pending EXCEPT
                      ![m].created = @ + 1,
                      ![m].inserted =
                          IF HasRow(LibraryBook, NextInsert(m)[1], NextInsert(m)[2])
                          THEN @ ELSE @ \cup {NextInsert(m)}]
    /\ UNCHANGED <<Library, capacity, Book, LibraryBook, scan, mgr, pc, log>>

\* The decrement updates and the commit of an apply that has inserted its
\* rows, and the return of rebalance().
Commit(m) ==
    /\ pc[m] = "locked"
    /\ ~Inserting(m)
    /\ Write(m)

\* Two applies wait for each other and the store ends one of them with an
\* error: its transaction is rolled back and rebalance() raises.
DeadlockDetected(m) ==
    /\ \E n \in Mgrs : Waits(m, n) /\ Waits(n, m)
    /\ log' = Append(log, [Finish(pending[m], LibraryBook) EXCEPT
                               !.post = LibraryBook, !.outcome = "failed"])
    /\ pc' = [pc EXCEPT ![m] = "idle"]
    /\ pending' = [pending EXCEPT ![m] = NoRun]
    /\ UNCHANGED <<Library, capacity, Book, LibraryBook, scan, mgr>>

\* rebalance Command.add_arguments: the options as the parser hands them
\* over; --priority defaults to year_desc ("" is the option not given), and
\* --authors is the list of ids written on the command line.
ParsedOptions(argv) ==
    [apply |-> argv.apply, capacity_aware |-> argv.capacity_aware,
     priority |-> IF argv.priority = "" THEN "year_desc" ELSE argv.priority,
     authors |-> argv.authors]

\* RedistributionManager.__init__, CapacityAwareRedistributionManager.__init__,
\* PriorityRedistributionManager.__init__
NewManager(kind, dry_run, priority, author_ids) ==
    [kind |-> kind, dry_run |-> dry_run, priority |-> priority,
     author_ids |-> author_ids, _free_capacity |-> <<>>]

\* rebalance Command.handle, the choice of the manager.
SelectedManager(opts) ==
    LET dry_run == ~opts.apply
    IN IF opts.capacity_aware /\ (opts.priority # "" \/ opts.authors # {})
       THEN NewManager("priority", dry_run, opts.priority, opts.authors)
       ELSE IF opts.capacity_aware
            THEN NewManager("capacity", dry_run, "year_desc", {})
            ELSE NewManager("base", dry_run, "year_desc", {})

\* The command lines of the rebalance command.
CommandLines ==
    [apply : BOOLEAN, capacity_aware : BOOLEAN,
     priority : {""} \cup Priorities, authors : {{}, {1}}]

\* rebalance Command.handle: one invocation of the command, which builds
\* its manager (kept in the next free slot) and calls rebalance() on it.
Handle(argv) ==
    /\ RunsStarted < MaxRuns
    /\ RunsStarted + 1 \in Mgrs
    /\ \E m \in {RunsStarted + 1} :
         \E mg \in {SelectedManager(ParsedOptions(argv))} :
           \E run \in {PlannedBy(mg, m)} :
             \E e \in {Finish(run, LibraryBook)} :
                /\ mgr' = [mgr EXCEPT ![m] = [mg EXCEPT !._free_capacity = run.free]]
                /\ LibraryBook' = e.post
                /\ log' = Append(log, e @@ [argv |-> argv])
    /\ UNCHANGED <<Library, capacity, Book, scan, pc, pending>>

\* simulate_intake Command.handle: the library l takes in copies more of
\* each of the books ids, no book going over max copies in all; a row is
\* created first where the library has none, and the update waits for the
\* rows an apply holds locked.
IntakeUpTo(l, ids, copies, max) ==
    /\ l \in Library
    /\ RowsLocked(Mgrs) \cap {<<l, b>> : b \in ids} = {}
    /\ \A b \in ids : Total(LibraryBook, b) + copies <= max
    /\ LibraryBook' =
           [k \in DOMAIN LibraryBook |->
               IF k[1] = l /\ k[2] \in ids
               THEN Quantity(LibraryBook, l, k[2]) + copies
               ELSE LibraryBook[k]]
    /\ UNCHANGED <<Library, capacity, Book, scan, mgr, pc, pending, log>>

\* An intake over stores of at most MaxQtyCap copies of a book.
Intake(l, ids, copies) == IntakeUpTo(l, ids, copies, MaxQtyCap)

\* ------------------------------------------------------ initial states
\* The copies of one book over the libraries 1..n: at most max in all.
Spreads(n, max) ==
    {d \in [LibraryIds -> 0..max] :
        /\ \A l \in LibraryIds : l > n => d[l] = 0
        /\ SumOver(LibraryIds, d) <= max}

\* The LibraryBook table holding the spreads d (by book), where the
\* libraries from z on keep a row of quantity 0 for the books they lack.
Table(n, d, z) ==
    [k \in LibraryIds \X BookIds |->
        IF d[k[2]][k[1]] > 0 THEN d[k[2]][k[1]]
        ELSE IF k[1] <= n /\ k[1] >= z THEN 0 ELSE NoRow]

\* Library.capacity is a PositiveIntegerField; the load of a library is not
\* checked against it when copies are taken in, so a library may start
\* over its capacity (by at most over).
Capacities(n, db, over) ==
    {[l \in LibraryIds |-> IF l > n THEN 0 ELSE used_capacity(db, l) + room[l]] :
        room \in {r \in [LibraryIds -> (0 - over)..MaxFree] :
                     \A l \in LibraryIds :
                         IF l > n THEN r[l] = 0
                         ELSE used_capacity(db, l) + r[l] >= 0}}

Identity == [b \in BookIds |-> b]
Orders == {o \in [BookIds -> BookIds] : \A b \in BookIds : \E i \in BookIds : o[i] = b}

InitManagers(kind, priority, author_ids) ==
    /\ \E dry \in BOOLEAN :
           mgr = [m \in Mgrs |-> NewManager(kind, dry, priority, author_ids)]
    /\ pc = [m \in Mgrs |-> "idle"]
    /\ pending = [m \in Mgrs |-> NoRun]
    /\ log = <<>>

\* All copies of a book in one library.
Concentrated(n, max) ==
    {d \in Spreads(n, max) : Cardinality({l \in LibraryIds : d[l] > 0}) <= 1}

\* The base builder reads neither capacities nor book data, and treats
\* all books alike.
InitBase ==
    /\ \E n \in {0} \cup LibraryIds :
          /\ Library = 1..n
          /\ \E d1 \in Spreads(n, MaxQty), d2 \in Concentrated(n, MaxQty), z \in 1..(n + 1) :
                 LibraryBook = Table(n, <<d1, d2>>, z)
    /\ scan = Identity
    /\ capacity = [l \in LibraryIds |-> 0]
    /\ Book = [b \in BookIds |-> [year |-> 2000, author_id |-> 1]]
    /\ InitManagers("base", "year_desc", {})

\* The capacity-aware builder reads no book data, and treats all books
\* alike.
InitCapacity ==
    /\ \E n \in 0..3 :
          /\ Library = 1..n
          /\ \E d \in [BookIds -> Spreads(n, MaxQtyCap)], z \in {1, n + 1} :
                 LibraryBook = Table(n, d, z)
          /\ capacity \in Capacities(n, LibraryBook, 1)
    /\ scan = Identity
    /\ Book = [b \in BookIds |-> [year |-> 2000, author_id |-> 1]]
    /\ InitManagers("capacity", "year_desc", {})

\* Stores and managers of the priority-aware builder.  Each book has its
\* own author, so that author_ids tells the books apart.
InitPriorityWith(years, configs, dry_runs) ==
    /\ \E n \in 0..3 :
          /\ Library = 1..n
          /\ \E d \in [BookIds -> Concentrated(n, MaxQtyCap)] :
                 LibraryBook = Table(n, d, n + 1)
          /\ capacity \in Capacities(n, LibraryBook, 0)
    /\ scan \in Orders
    /\ \E y \in years :
           Book = [b \in BookIds |-> [year |-> y[b], author_id |-> b]]
    /\ \E c \in configs, dry \in dry_runs :
          /\ mgr = [m \in Mgrs |-> NewManager("priority", dry, c[1], c[2])]
          /\ pc = [m \in Mgrs |-> "idle"]
          /\ pending = [m \in Mgrs |-> NoRun]
          /\ log = <<>>

InitPriority ==
    InitPriorityWith({<<2000, 2020>>, <<2020, 2000>>},
                     {<<"year_desc", {}>>, <<"author_first", {2}>>}, BOOLEAN)

\* Every priority configuration, planning only.
InitPriorityPlans ==
    InitPriorityWith([BookIds -> Years], Priorities \X (SUBSET AuthorIds), {TRUE})

Init == InitBase \/ InitCapacity \/ InitPriority

Next == \E m \in Mgrs : Rebalance(m)

Spec == Init /\ [][Next]_vars

\* The planning of the priority-aware builder over all its configurations.
SpecPriority == InitPriorityPlans /\ [][Next]_vars

\* Capacity-aware managers that apply, over libraries that start within
\* their capacity, while libraries take in copies between the calls.
InitIntake ==
    /\ Library = 1..2
    /\ \E d \in [BookIds -> Concentrated(2, MaxQtyCap - 1)] :
           LibraryBook = Table(2, d, 3)
    /\ capacity \in Capacities(2, LibraryBook, 0)
    /\ scan = Identity
    /\ Book = [b \in BookIds |-> [year |-> 2000, author_id |-> 1]]
    /\ mgr = [m \in Mgrs |-> NewManager("capacity", FALSE, "year_desc", {})]
    /\ pc = [m \in Mgrs |-> "idle"]
    /\ pending = [m \in Mgrs |-> NoRun]
    /\ log = <<>>

NextIntake ==
    \/ \E m \in Mgrs : Rebalance(m)
    \/ \E l \in LibraryIds, ids \in (SUBSET BookIds) \ {{}} : Intake(l, ids, 1)

SpecIntake == InitIntake /\ [][NextIntake]_vars

\* Base managers that apply, their apply transactions in two steps (the
\* locking read, then the writes and the commit), and intake transactions
\* that commit while a rebalance() is under way.
InitLocking ==
    /\ Library = 1..2
    /\ \E d \in [BookIds -> Concentrated(2, MaxQtyCap - 1)], z \in {1, 3} :
           LibraryBook = Table(2, d, z)
    /\ scan = Identity
    /\ capacity = [l \in LibraryIds |-> 0]
    /\ Book = [b \in BookIds |-> [year |-> 2000, author_id |-> 1]]
    /\ mgr = [m \in Mgrs |-> NewManager("base", FALSE, "year_desc", {})]
    /\ pc = [m \in Mgrs |-> "idle"]
    /\ pending = [m \in Mgrs |-> NoRun]
    /\ log = <<>>

NextLocking ==
    \/ \E m \in Mgrs : Plan(m) \/ LockRows(m) \/ Write(m)
    \/ \E l \in LibraryIds, b \in BookIds :
          (\E m \in Mgrs : pc[m] # "idle") /\ Intake(l, {b}, 1)

SpecLocking == InitLocking /\ [][NextLocking]_vars

\* Two managers that apply, a capacity-aware or a base one each, whose
\* planning and applying interleave.
InitConcurrent ==
    /\ \E n \in LibraryIds :
          /\ Library = 1..n
          /\ \E d1 \in Spreads(n, MaxQtyCap), d2 \in Concentrated(n, MaxQtyCap) :
                 LibraryBook = Table(n, <<d1, d2>>, n + 1)
          /\ capacity \in Capacities(n, LibraryBook, 0)
    /\ scan = Identity
    /\ Book = [b \in BookIds |-> [year |-> 2000, author_id |-> 1]]
    /\ \E kind \in {<<"base", "base">>, <<"capacity", "base">>, <<"capacity", "capacity">>} :
           mgr = [m \in Mgrs |-> NewManager(kind[m], FALSE, "year_desc", {})]
    /\ pc = [m \in Mgrs |-> "idle"]
    /\ pending = [m \in Mgrs |-> NoRun]
    /\ log = <<>>

NextConcurrent == \E m \in Mgrs : Plan(m) \/ Apply(m)

SpecConcurrent == InitConcurrent /\ [][NextConcurrent]_vars

\* Managers of every kind over three libraries, whose stores keep rows of
\* quantity 0 for the libraries from some library on.
InitZeroRows ==
    /\ Library = 1..3
    /\ \E d1 \in Spreads(3, MaxQtyCap), d2 \in Concentrated(3, MaxQtyCap), z \in 1..4 :
           LibraryBook = Table(3, <<d1, d2>>, z)
    /\ scan = Identity
    /\ Book = [b \in BookIds |-> [year |-> IF b = 1 THEN 2000 ELSE 2020,
                                  author_id |-> b]]
    /\ \E c \in {<<"base", "year_desc", {}>>, <<"capacity", "year_desc", {}>>,
                  <<"priority", "year_desc", {}>>, <<"priority", "author_first", {1}>>},
          dry \in BOOLEAN :
          /\ mgr = [m \in Mgrs |-> NewManager(c[1], dry, c[2], c[3])]
          /\ IF c[1] = "base" THEN capacity = [l \in LibraryIds |-> 0]
             ELSE capacity \in Capacities(3, LibraryBook, 0)
    /\ pc = [m \in Mgrs |-> "idle"]
    /\ pending = [m \in Mgrs |-> NoRun]
    /\ log = <<>>

SpecZeroRows == InitZeroRows /\ [][Next]_vars

\* Invocations of the rebalance command over two libraries; the managers
\* are those the command builds (the slots start with placeholders).
InitCommand ==
    /\ Library = 1..2
    /\ \E d \in [BookIds -> Concentrated(2, MaxQtyCap)] :
           LibraryBook = Table(2, d, 3)
    /\ capacity \in Capacities(2, LibraryBook, 0)
    /\ scan = Identity
    /\ Book = [b \in BookIds |-> [year |-> IF b = 1 THEN 2000 ELSE 2020,
                                  author_id |-> b]]
    /\ mgr = [m \in Mgrs |-> NewManager("base", TRUE, "year_desc", {})]
    /\ pc = [m \in Mgrs |-> "idle"]
    /\ pending = [m \in Mgrs |-> NoRun]
    /\ log = <<>>

NextCommand == \E argv \in CommandLines : Handle(argv)

SpecCommand == InitCommand /\ [][NextCommand]_vars

\* Two managers that apply, a base or a priority-aware one each, over
\* three libraries with room for every copy; the apply transactions go row
\* by row through their inserts, and libraries take in copies while a
\* rebalance() is under way.
InitInserts ==
    /\ Library = 1..3
    /\ \E d \in [BookIds -> Concentrated(3, 2)] : LibraryBook = Table(3, d, 4)
    /\ capacity = [l \in LibraryIds |-> IF l \in 1..3 THEN 2 * MaxQty ELSE 0]
    /\ scan = Identity
    /\ Book = [b \in BookIds |-> [year |-> IF b = 1 THEN 2000 ELSE 2020,
                                  author_id |-> b]]
    /\ \E kind \in {<<"base", "base">>, <<"base", "priority">>} :
           mgr = [m \in Mgrs |-> NewManager(kind[m], FALSE, "year_desc", {})]
    /\ pc = [m \in Mgrs |-> "idle"]
    /\ pending = [m \in Mgrs |-> NoRun]
    /\ log = <<>>

NextInserts ==
    \/ \E m \in Mgrs : \/ Plan(m)
                       \/ LockRows(m)
                       \/ CreateRow(m)
                       \/ Commit(m)
                       \/ DeadlockDetected(m)
    \/ \E l \in LibraryIds, ids \in (SUBSET BookIds) \ {{}} :
          (\E m \in Mgrs : pc[m] # "idle") /\ IntakeUpTo(l, ids, 2, MaxQty)

SpecInserts == InitInserts /\ [][NextInserts]_vars

\* ---------------------------------------------------------- properties
Runs == 1..Len(log)
\* A call that applied its plan.
Applied(i) == log[i].outcome = "applied"
\* No other writer between the planning reads and the apply of the call.
Quiet(i) == log[i].pre = log[i].snap
SmallerOf(a, b) == IF a < b THEN a ELSE b

\* C1: after a successful apply with no concurrent writer, the copies of
\* every book over all libraries are as many as before the run, and every
\* holding is its old quantity plus the moves into it minus the moves out
\* of it: each unit taken from a source is added to one destination.
C1_CopiesConserved ==
    \A i \in Runs : Applied(i) /\ Quiet(i) =>
        \A b \in BookIds :
            /\ Total(log[i].post, b) = Total(log[i].pre, b)
            /\ \A l \in LibraryIds :
                   Quantity(log[i].post, l, b) =
                       Quantity(log[i].pre, l, b) + IncQty(log[i].moves, <<l, b>>)
                                                  - DecQty(log[i].moves, <<l, b>>)

\* A plan that takes two copies from one holding has been applied.
C1_Witness ==
    \E i \in Runs : /\ Applied(i) /\ Quiet(i)
                     /\ \E l \in LibraryIds, b \in BookIds :
                            DecQty(log[i].moves, <<l, b>>) >= 2

\* C2: in one run, the moves of a book out of a library are at most its
\* quantity at planning time minus one, so that the donor still holds at
\* least one copy once the plan is applied.
C2_DonorKeepsOne ==
    \A i \in Runs : \A l \in LibraryIds, b \in BookIds :
        DecQty(log[i].moves, <<l, b>>) > 0 =>
            /\ DecQty(log[i].moves, <<l, b>>) <= Quantity(log[i].snap, l, b) - 1
            /\ Applied(i) /\ Quiet(i) => Quantity(log[i].post, l, b) >= 1

\* Two donors of one book have each given all but their last copy.
C2_Witness ==
    \E i \in Runs : /\ Applied(i) /\ Quiet(i)
                     /\ \E l1, l2 \in LibraryIds, b \in BookIds :
                           /\ l1 # l2
                           /\ DecQty(log[i].moves, <<l1, b>>) > 0
                           /\ DecQty(log[i].moves, <<l2, b>>) > 0
                           /\ Quantity(log[i].post, l1, b) = 1
                           /\ Quantity(log[i].post, l2, b) = 1

\* C3: after a successful apply with no concurrent writer, the coverage of
\* every book is at most min(N, total(book)), N the library count of the
\* run, and at least its coverage before the run.
C3_CoverageBounded ==
    \A i \in Runs : Applied(i) /\ Quiet(i) =>
        \A b \in BookIds :
            /\ Coverage(log[i].post, b) <= SmallerOf(log[i].nlibs, Total(log[i].post, b))
            /\ Coverage(log[i].post, b) >= Coverage(log[i].pre, b)

\* An apply has raised the coverage of a book that other libraries held too.
C3_Witness ==
    \E i \in Runs : /\ Applied(i) /\ Quiet(i)
                     /\ \E b \in BookIds :
                           /\ Coverage(log[i].pre, b) >= 2
                           /\ Coverage(log[i].post, b) > Coverage(log[i].pre, b)

\* A call of a capacity-aware or priority-aware manager.
CapacityRun(i) == mgr[log[i].mgr].kind # "base"
LargerOf(a, b) == IF a > b THEN a ELSE b

\* The call in which the manager of call i computed the free-capacity map
\* that call i plans with.
MapRun(i) ==
    IF NeedsFreeCapacity(log[i].free0) THEN i
    ELSE CHOOSE j \in 1..i : /\ log[j].mgr = log[i].mgr
                             /\ NeedsFreeCapacity(log[j].free0)
                             /\ \A k \in (j + 1)..i :
                                   log[k].mgr = log[i].mgr
                                       => ~NeedsFreeCapacity(log[k].free0)

\* Since the manager of call i computed its free-capacity map, only its own
\* calls have changed the holdings.
OwnView(i) ==
    \A k \in MapRun(i)..(i - 1) :
        log[k].mgr = log[i].mgr \/ log[k].post = log[k].pre

\* C4 as stated: in capacity-aware mode every library is within its
\* capacity after a successful apply, whatever the initial holdings.
C4_WithinCapacity ==
    \A i \in Runs : Applied(i) /\ CapacityRun(i) =>
        \A l \in Library : used_capacity(log[i].post, l) <= capacity[l]

\* Every library is within its capacity in the store db.
WithinCapacity(db) ==
    \A l \in Library : used_capacity(db, l) <= capacity[l]

\* C4, for holdings within capacity: in capacity-aware mode, a successful
\* apply of a run that found every library within its capacity, and had
\* no writer between its planning and its apply, leaves every library
\* within its capacity.
C4_StaysWithinCapacity ==
    \A i \in Runs :
        Applied(i) /\ CapacityRun(i) /\ Quiet(i) /\ WithinCapacity(log[i].pre)
            => WithinCapacity(log[i].post)

\* What holds of C4: in capacity-aware mode, after a successful apply with no
\* other writer since the manager computed its free-capacity map, every
\* library holds at most the larger of its capacity and its load before
\* the run: a library within its capacity stays within it, and a library
\* that was over it gains nothing.
C4_CapacityNotExceeded ==
    \A i \in Runs : Applied(i) /\ CapacityRun(i) /\ Quiet(i) /\ OwnView(i) =>
        \A l \in Library :
            used_capacity(log[i].post, l)
                <= LargerOf(capacity[l], used_capacity(log[i].pre, l))

\* A capacity-aware apply has filled a library to its capacity with the
\* copy of one book while another book lacking there got no copy for it.
C4_Witness ==
    \E i \in Runs : /\ Applied(i) /\ CapacityRun(i) /\ Quiet(i) /\ OwnView(i)
                     /\ \E l \in Library, b1, b2 \in BookIds :
                           /\ used_capacity(log[i].pre, l) < capacity[l]
                           /\ used_capacity(log[i].post, l) = capacity[l]
                           /\ IncQty(log[i].moves, <<l, b1>>) = 1
                           /\ b2 \in Range(log[i].ordered)
                           /\ Quantity(log[i].post, l, b2) = 0
                           /\ \E d \in Library : Quantity(log[i].post, d, b2) > 1

\* C6: a rebalance() call with dry_run = True returns with the holding rows
\* and their quantities as they were when it was called.
C6_DryRunKeepsStore ==
    \A i \in Runs : log[i].dry_run =>
        log[i].post = log[i].pre /\ log[i].outcome = "dry"

\* A dry run has planned a move to a pair that has no row and a move to a
\* pair whose row holds 0.
C6_Witness ==
    \E i \in Runs : /\ log[i].dry_run
                     /\ \E j, k \in 1..Len(log[i].moves) :
                           /\ log[i].pre[IncKey(log[i].moves[j])] = NoRow
                           /\ log[i].pre[IncKey(log[i].moves[k])] = 0
                     /\ LibraryBook = log[i].pre

\* C7 as stated: two dry runs with no mutation of the holdings between them
\* return the same move list, on one manager or on two.
C7_ReplanIdentical ==
    \A i, j \in Runs :
        /\ i < j
        /\ log[i].dry_run /\ log[j].dry_run
        /\ \A k \in i..j : log[k].post = log[k].pre
        => log[j].moves = log[i].moves

\* All q >= 2 copies of book b are in library D, and the other libraries
\* hold none.
SingleHolder(db, b, D, q) ==
    /\ D \in Library
    /\ q >= 2
    /\ Quantity(db, D, b) = q
    /\ \A l \in LibraryIds \ {D} : Quantity(db, l, b) = 0

MovesOf(moves, b) == SelectSeq(moves, LAMBDA m : m.book_id = b)

\* C10: base builder, book b with all q >= 2 copies in library D: the plan
\* holds min(N, q) - 1 moves of b, each of one copy from D, to pairwise
\* distinct other libraries, and D holds q - (min(N, q) - 1) after apply.
C10_SingleHolderSpread ==
    \A i \in Runs : mgr[log[i].mgr].kind = "base" =>
        \A b \in BookIds, D \in LibraryIds :
            LET q == Quantity(log[i].snap, D, b)
                ms == MovesOf(log[i].moves, b)
                k == SmallerOf(log[i].nlibs, q) - 1
            IN SingleHolder(log[i].snap, b, D, q) =>
                /\ Len(ms) = k
                /\ \A j \in 1..Len(ms) :
                      /\ ms[j].from_library_id = D
                      /\ ms[j].quantity = 1
                      /\ ms[j].to_library_id \in Library \ {D}
                /\ \A j1, j2 \in 1..Len(ms) :
                      j1 # j2 => ms[j1].to_library_id # ms[j2].to_library_id
                /\ Applied(i) /\ Quiet(i) => Quantity(log[i].post, D, b) = q - k

\* Three libraries, a book with four copies all in library 1: two moves,
\* to libraries 2 and 3, and library 1 is left with two copies.
C10_Witness ==
    \E i \in Runs :
        /\ mgr[log[i].mgr].kind = "base" /\ Applied(i) /\ Quiet(i)
        /\ log[i].nlibs = 3
        /\ SingleHolder(log[i].snap, 1, 1, 4)
        /\ Len(MovesOf(log[i].moves, 1)) = 2
        /\ Quantity(log[i].post, 1, 1) = 2
        /\ Quantity(log[i].post, 2, 1) = 1
        /\ Quantity(log[i].post, 3, 1) = 1

\* Some decrement of the plan of call i would leave less than zero copies
\* in its row, as the store stood when the apply began.
Overdrawn(i) ==
    \E k \in Range(DecKeys(log[i].moves)) :
        /\ log[i].pre[k] # NoRow
        /\ log[i].pre[k] + IncQty(log[i].moves, k) - DecQty(log[i].moves, k) < 0

\* C5: the apply is all or nothing: if a mutation of it would leave a
\* holding below zero, the apply fails, and after a failed apply every
\* holding row, those it had incremented or created too, is as it was
\* when the apply began.
C5_AllOrNothing ==
    \A i \in Runs : ~log[i].dry_run =>
        /\ Overdrawn(i) <=> log[i].outcome = "failed"
        /\ log[i].outcome = "failed" =>
              log[i].post = log[i].pre /\ LibraryBook = log[Len(log)].post

\* An apply has failed after adding to one row and creating another.
C5_Witness ==
    \E i \in Runs :
        /\ log[i].outcome = "failed"
        /\ \E j, k \in 1..Len(log[i].moves) :
              /\ log[i].pre[IncKey(log[i].moves[j])] = NoRow
              /\ log[i].pre[IncKey(log[i].moves[k])] > 0

\* The manager of call i as it was when the call began.
ManagerAt(i) == [mgr[log[i].mgr] EXCEPT !._free_capacity = log[i].free0]

\* C8 as stated: the move list of a priority-aware run is the same for
\* every order in which the store may yield the candidate ids.
C8_OrderIndependent ==
    \A i \in Runs : mgr[log[i].mgr].kind = "priority" =>
        \A o \in Orders :
            PlanWith(ManagerAt(i), log[i].snap, Library, o).moves = log[i].moves

\* Room left in library l as the store db has it.
RoomIn(db, l) == capacity[l] - used_capacity(db, l)

\* Book b can give a copy, lacks in library L, and no other library that
\* lacks it has room: its next copy can go to L only.
NeedsSlot(db, b, L) ==
    /\ IsCandidate(db, Cardinality(Library), b)
    /\ \E d \in Library : Quantity(db, d, b) > 1
    /\ L \in Library /\ Quantity(db, L, b) = 0
    /\ \A l \in Library \ {L} : Quantity(db, l, b) = 0 => RoomIn(db, l) <= 0

Favoured(i, b) == Book[b].author_id \in mgr[log[i].mgr].author_ids

\* C9: under author_first every candidate book of a configured author is
\* planned before every candidate book of another author, whatever their
\* years; so when a book of a configured author and a book of another
\* author both need the one unit of room left in a library, no copy of the
\* other book is moved there, and (the manager having read the room in
\* this call) a copy of a configured author's book is.
C9_AuthorFirst ==
    \A i \in Runs : mgr[log[i].mgr].priority = "author_first" =>
        /\ \A p, q \in 1..Len(log[i].ordered) :
               Favoured(i, log[i].ordered[p]) /\ ~Favoured(i, log[i].ordered[q])
                   => p < q
        /\ \A L \in Library, a, x \in BookIds :
               /\ Favoured(i, a) /\ ~Favoured(i, x)
               /\ RoomIn(log[i].snap, L) = 1
               /\ NeedsSlot(log[i].snap, a, L) /\ NeedsSlot(log[i].snap, x, L)
               => /\ IncQty(log[i].moves, <<L, x>>) = 0
                  /\ NeedsFreeCapacity(log[i].free0) =>
                        \E a2 \in BookIds :
                            Favoured(i, a2) /\ IncQty(log[i].moves, <<L, a2>>) = 1

\* Author 1 configured; book 1 (author 1, year 2000) and book 2 (author 2,
\* year 2020) both need the one slot of a library, the store yields book 2
\* first, and the move into the library is book 1's.
C9_Witness ==
    \E i \in Runs, L \in Library :
        /\ mgr[log[i].mgr].priority = "author_first"
        /\ mgr[log[i].mgr].author_ids = {1}
        /\ Book[1].year = 2000 /\ Book[2].year = 2020
        /\ scan = <<2, 1>>
        /\ RoomIn(log[i].snap, L) = 1
        /\ NeedsSlot(log[i].snap, 1, L) /\ NeedsSlot(log[i].snap, 2, L)
        /\ log[i].ordered = <<1, 2>>
        /\ IncQty(log[i].moves, <<L, 1>>) = 1
        /\ IncQty(log[i].moves, <<L, 2>>) = 0

\* C11: a book that already is in min(N, total) libraries when a run plans
\* gets no move in it, whatever the builder and however its copies are
\* spread; with one library the plan is empty.
C11_NoMovesAtTarget ==
    \A i \in Runs :
        /\ \A b \in BookIds :
               Coverage(log[i].snap, b)
                   >= SmallerOf(log[i].nlibs, Total(log[i].snap, b))
               => MovesOf(log[i].moves, b) = <<>>
        /\ log[i].nlibs = 1 => log[i].moves = <<>>

\* A run over two or more libraries has moved copies of one book and
\* none of another that is in every library, three copies or more in one
\* of them and one in another.
C11_Witness ==
    \E i \in Runs, b, b2 \in BookIds :
        /\ log[i].nlibs >= 2
        /\ Coverage(log[i].snap, b) = log[i].nlibs
        /\ \E l1, l2 \in Library : /\ Quantity(log[i].snap, l1, b) >= 3
                                    /\ Quantity(log[i].snap, l2, b) = 1
        /\ MovesOf(log[i].moves, b) = <<>>
        /\ MovesOf(log[i].moves, b2) # <<>>

\* Call i came back with a Plan (and did not raise).
ReturnsPlan(i) == log[i].outcome \in {"dry", "applied"}

\* C12 as stated: a rebalance() that finds no library returns no Plan; it
\* fails.
C12_NoLibrariesFails ==
    \A i \in Runs : log[i].nlibs = 0 => ~ReturnsPlan(i)

\* The books that are in fewer than nlibs libraries of the store db and
\* have a copy somewhere.
UnderCovered(db, nlibs) ==
    {b \in BookIds : Coverage(db, b) < nlibs /\ Total(db, b) > 0}

\* C13: the ids a run takes from the candidate selector are, each once,
\* the books with coverage < N and total > 0, rows of quantity 0 covering
\* nothing; books_considered is their number, whether or not moves were
\* planned for them.
C13_SelectorExact ==
    \A i \in Runs :
        LET want == UnderCovered(log[i].snap, log[i].nlibs)
        IN /\ Range(log[i].ordered) = want
           /\ Len(log[i].ordered) = Cardinality(want)
           /\ log[i].considered = Cardinality(want)

\* A run has considered two books and planned moves for one only; the
\* other has a single copy and a row of quantity 0 in every other
\* library.
C13_Witness ==
    \E i \in Runs, b, b2 \in BookIds :
        /\ log[i].nlibs >= 2
        /\ log[i].considered = 2
        /\ Total(log[i].snap, b) = 1
        /\ \A l \in Library : HasRow(log[i].snap, l, b)
        /\ MovesOf(log[i].moves, b) = <<>>
        /\ MovesOf(log[i].moves, b2) # <<>>

\* C14 as stated: no update is lost: every apply that commits, whatever
\* intake or apply transactions committed around it, changes each
\* (library, book) pair by its increments minus its decrements, a pair
\* that had no row when the apply read its rows too; so the final
\* quantity of a pair is its initial quantity plus all committed
\* increments minus all committed decrements.
C14_NoLostUpdate ==
    \A i \in Runs : Applied(i) =>
        \A k \in DOMAIN LibraryBook :
            Quantity(log[i].post, k[1], k[2]) =
                Quantity(log[i].pre, k[1], k[2]) + IncQty(log[i].moves, k)
                                                 - DecQty(log[i].moves, k)

\* The apply of call i had to create the row of a pair it increments, the
\* pair having had no row when the apply read its rows, and the row was
\* there when it wrote.
Collided(i) ==
    \E k \in Range(IncKeys(log[i].moves)) :
        k \notin log[i].by_key /\ log[i].pre[k] # NoRow

\* C15 as stated: an apply whose creation of a holding row collides with
\* an existing row of the pair fails, and none of its mutations, its
\* decrements among them, is visible afterwards.
C15_CollisionFails ==
    \A i \in Runs : ~log[i].dry_run /\ Collided(i) =>
        log[i].outcome = "failed" /\ log[i].post = log[i].pre

\* How many more libraries the book b may reach: min(N, total) - coverage,
\* on the store db.
Shortfall(db, nlibs, b) ==
    SmallerOf(nlibs, Total(db, b)) - Coverage(db, b)

\* C16: in every run and for every book, the moves of the book carry one
\* copy each, go to pairwise distinct libraries that held no copy of it
\* at planning time, and are at most min(N, total) - coverage many.
C16_UnitMovesToNewLibraries ==
    \A i \in Runs : \A b \in BookIds :
        LET ms == MovesOf(log[i].moves, b)
        IN /\ \A j \in 1..Len(ms) :
                 /\ ms[j].quantity = 1
                 /\ ms[j].to_library_id \in Library
                 /\ Quantity(log[i].snap, ms[j].to_library_id, b) = 0
           /\ \A j1, j2 \in 1..Len(ms) :
                 j1 # j2 => ms[j1].to_library_id # ms[j2].to_library_id
           /\ Len(ms) <= Shortfall(log[i].snap, log[i].nlibs, b)
           /\ Len(ms) = 0 \/ Shortfall(log[i].snap, log[i].nlibs, b) > 0

\* A capacity-aware run has spread a book to the two libraries it lacked
\* in, one of them holding a row of quantity 0 for it, and, the room
\* being used up, has given another book fewer libraries than it lacked.
C16_Witness ==
    \E i \in Runs, b, b2 \in BookIds :
        /\ CapacityRun(i)
        /\ Len(MovesOf(log[i].moves, b)) = 2
        /\ Shortfall(log[i].snap, log[i].nlibs, b) = 2
        /\ \E l \in Library : log[i].snap[<<l, b>>] = 0
        /\ Len(MovesOf(log[i].moves, b2)) < Shortfall(log[i].snap, log[i].nlibs, b2)

\* The moves of call i into library L, over all books.
MovesInto(i, L) ==
    SumOver(BookIds, [b \in BookIds |-> IncQty(log[i].moves, <<L, b>>)])

\* C17 as stated: in a capacity-aware or priority-aware run the moves into
\* a library are at most max(0, capacity - used_capacity) as the store has
\* them when the run begins; a library at or over its capacity then is no
\* destination.
C17_DestinationsHaveRoom ==
    \A i \in Runs : CapacityRun(i) =>
        \A L \in Library :
            MovesInto(i, L) <= LargerOf(0, RoomIn(log[i].snap, L))

\* What holds of C17: the bound, for the call in which the manager
\* computes its free-capacity map.
C17_FirstCallHasRoom ==
    \A i \in Runs : CapacityRun(i) /\ NeedsFreeCapacity(log[i].free0) =>
        \A L \in Library :
            MovesInto(i, L) <= LargerOf(0, RoomIn(log[i].snap, L))

\* C18: after a successful apply of a base plan with no other writer,
\* every book with a copy is in exactly min(N, total) libraries, and a run
\* made next on the unchanged store plans no move.
C18_BaseReachesTarget ==
    \A i \in Runs :
        mgr[log[i].mgr].kind = "base" /\ Applied(i) /\ Quiet(i) =>
            /\ \A b \in BookIds :
                   Total(log[i].post, b) > 0 =>
                       Coverage(log[i].post, b)
                           = SmallerOf(log[i].nlibs, Total(log[i].post, b))
            /\ (i + 1 \in Runs /\ log[i + 1].snap = log[i].post)
                   => log[i + 1].moves = <<>>

\* A base apply has taken copies from two donors of a book to bring it to
\* every library, and the run made next has planned nothing.
C18_Witness ==
    \E i \in Runs, b \in BookIds :
        /\ mgr[log[i].mgr].kind = "base" /\ Applied(i) /\ Quiet(i)
        /\ Cardinality({l \in Library : DecQty(log[i].moves, <<l, b>>) > 0}) = 2
        /\ Coverage(log[i].post, b) = log[i].nlibs
        /\ i + 1 \in Runs
        /\ log[i + 1].snap = log[i].post
        /\ log[i + 1].moves = <<>>

\* C19 as stated: under author_first the candidate books of authors that
\* are not configured are planned after the books of the configured
\* authors and, among themselves, newer first.
C19_OthersNewerFirst ==
    \A i \in Runs : mgr[log[i].mgr].priority = "author_first" =>
        \A p, q \in 1..Len(log[i].ordered) :
            LET x == log[i].ordered[p]
                y == log[i].ordered[q]
            IN p < q /\ ~Favoured(i, x) =>
                  /\ ~Favoured(i, y)
                  /\ Book[x].year >= Book[y].year

\* C19, amended: under author_first the candidate books of authors that
\* are not configured are planned after the books of the configured
\* authors and, among themselves, in ascending order of book id, whatever
\* their years.
C19_OthersByIdLast ==
    \A i \in Runs : mgr[log[i].mgr].priority = "author_first" =>
        \A p, q \in 1..Len(log[i].ordered) :
            LET x == log[i].ordered[p]
                y == log[i].ordered[q]
            IN p < q /\ ~Favoured(i, x) => ~Favoured(i, y) /\ x < y

\* Under author_first with no author of theirs configured, book 1 of 2000
\* has been planned before book 2 of 2020, the store having yielded book 2
\* first.
C19_Witness ==
    \E i \in Runs :
        /\ mgr[log[i].mgr].priority = "author_first"
        /\ ~Favoured(i, 1) /\ ~Favoured(i, 2)
        /\ Book[1].year = 2000 /\ Book[2].year = 2020
        /\ scan = <<2, 1>>
        /\ log[i].ordered = <<1, 2>>

\* C20: under year_desc the candidate books are planned in non-increasing
\* order of publication year, whatever the configured author set: in the
\* returned move list no move of an older book precedes a move of a
\* strictly newer book.
C20_YearDesc ==
    \A i \in Runs : mgr[log[i].mgr].priority = "year_desc" =>
        /\ \A p, q \in 1..Len(log[i].ordered) :
               p < q => Book[log[i].ordered[p]].year >= Book[log[i].ordered[q]].year
        /\ \A p, q \in 1..Len(log[i].moves) :
               p < q => Book[log[i].moves[p].book_id].year
                            >= Book[log[i].moves[q].book_id].year

\* Under year_desc with the author of book 1 (year 2000) configured and
\* not the author of book 2 (year 2020), the store having yielded book 1
\* first, both books have moves and the first move of the list is book 2's.
C20_Witness ==
    \E i \in Runs :
        /\ mgr[log[i].mgr].priority = "year_desc"
        /\ Favoured(i, 1) /\ ~Favoured(i, 2)
        /\ Book[1].year = 2000 /\ Book[2].year = 2020
        /\ scan = <<1, 2>>
        /\ log[i].ordered = <<2, 1>>
        /\ Len(MovesOf(log[i].moves, 1)) > 0
        /\ Len(MovesOf(log[i].moves, 2)) > 0
        /\ log[i].moves[1].book_id = 2

\* The holdings that gave copies in the plan of the call.
DonorRows(i) == Range(DecKeys(log[i].moves))

\* Two calls that planned from the same holdings and both committed their
\* apply.
SameSnapshot(i, j) ==
    /\ i < j
    /\ log[i].snap = log[j].snap
    /\ Applied(i) /\ Applied(j)

\* C21: when two runs plan from the same holdings and both apply, one
\* committing before the other starts its apply, every apply that commits
\* leaves the coverage of every book not lower than in the planned-from
\* holdings and every holding that gave copies with at least one copy.
C21_StalePlansKeepDonors ==
    \A i, j \in Runs : SameSnapshot(i, j) =>
        \A x \in {i, j} :
            /\ \A b \in BookIds :
                   Coverage(log[x].post, b) >= Coverage(log[x].snap, b)
            /\ \A k \in DonorRows(x) : Quantity(log[x].post, k[1], k[2]) >= 1

\* The coverage part of C21 alone.
C21_StalePlansKeepCoverage ==
    \A i, j \in Runs : SameSnapshot(i, j) =>
        \A x \in {i, j}, b \in BookIds :
            Coverage(log[x].post, b) >= Coverage(log[x].snap, b)

\* C22: two concurrent applies never deadlock: no two of them wait for
\* each other, each having taken all its locks in one batch before its
\* first mutation.
C22_NeverDeadlock ==
    \A m, n \in Mgrs : ~(Waits(m, n) /\ Waits(n, m))

\* The mechanism C22 names: an apply that has read its rows under the lock
\* takes no further lock, its row creations included.
C22_LocksInOneBatch ==
    \A m \in Mgrs : pc[m] = "locked" => pending[m].inserted = {}

\* The stores that differ from db only in the presence of holding rows of
\* quantity 0 (for the libraries that exist).
ZeroVariants(db) ==
    LET empty == {k \in DOMAIN db : db[k] <= 0 /\ k[1] \in Library}
    IN {[k \in DOMAIN db |-> IF k \notin empty THEN db[k]
                             ELSE IF k \in rows THEN 0 ELSE NoRow] :
           rows \in SUBSET empty}

\* The quantities of the store, an absent row counted as 0.
Quantities(db) == [k \in DOMAIN db |-> Quantity(db, k[1], k[2])]

\* rebalance() of the manager of call i, as it was when the call began,
\* over the store v.
Replayed(i, v) ==
    LET p == PlanWith(ManagerAt(i), v, Library, scan)
    IN [moves |-> p.moves, considered |-> p.considered, ordered |-> p.ordered,
        post |-> IF log[i].dry_run THEN v ELSE _apply_plan(v, p.moves).db]

\* The call that has just returned (every call is, in the state it leaves).
LastRun == {i \in Runs : i = Len(log)}

\* C23: a holding row of quantity 0 and an absent row are the same to
\* rebalance(): over every store that differs from the one of a call only
\* in the presence of rows of quantity 0, the same manager considers the
\* same books, returns the same move list and leaves every (library, book)
\* pair with the same quantity, an absent row counted as 0.
C23_ZeroRowAsAbsent ==
    \A i \in LastRun : Quiet(i) =>
        \A v \in ZeroVariants(log[i].snap) :
            \E r \in {Replayed(i, v)} :
                /\ r.moves = log[i].moves
                /\ r.considered = log[i].considered
                /\ r.ordered = log[i].ordered
                /\ Quantities(r.post) = Quantities(log[i].post)

\* A call has applied a plan that gave a copy to a library with a row of
\* quantity 0 and another copy to a library with no row.
C23_Witness ==
    \E i \in Runs :
        /\ Quiet(i) /\ Applied(i)
        /\ \E p, q \in 1..Len(log[i].moves) :
               /\ log[i].snap[IncKey(log[i].moves[p])] = 0
               /\ log[i].snap[IncKey(log[i].moves[q])] = NoRow
        /\ log[i].post # log[i].snap

\* The command line of call i asks for a priority mode or gives an author
\* list, and does not ask for capacity awareness.
PriorityWithoutCapacity(i) ==
    /\ log[i].argv.priority # "" \/ log[i].argv.authors # {}
    /\ ~log[i].argv.capacity_aware

\* C24: a rebalance command invoked with a priority mode or an author list
\* and without the capacity-aware option runs the priority-aware builder,
\* not the base builder.
C24_PriorityImpliesCapacityPath ==
    \A i \in Runs : PriorityWithoutCapacity(i) =>
        mgr[log[i].mgr].kind = "priority"

====
